---- MODULE Spec2Model ----
(***************************************************************************)
(* A model of slim-node-postgres: the named-parameter preparation          *)
(* (SlimNodePostgres.prepare, PostgresPreparedStatement.prepare), the      *)
(* SlimNodePostgres facade with its pg pool life cycle, and the            *)
(* SlimNodePostgresPool query paths.                                       *)
(*                                                                         *)
(* A JavaScript string is a sequence of lexemes.  In a SQL template a     *)
(* lexeme is one character, except "constructor", which stands for the     *)
(* eleven letters of that word (a property every object literal inherits   *)
(* from Object.prototype).  No other lexeme shares a letter with it, so    *)
(* the lexeme sequence of a template is unique and substring search on     *)
(* lexemes agrees with substring search on characters.  The fixed text of  *)
(* the INSERT statement is one lexeme a piece.                             *)
(***************************************************************************)
EXTENDS Integers, Sequences, FiniteSets, TLC

\* ------------------------------------------------------------------ bounds

\* Longest SQL template of the preparation specification.
MaxLen == 4

\* pg pools one facade creates in a run (the constructor's and connect's).
MaxPools == 2

\* Calls of end() the model follows on one pool.
MaxEndCalls == 2

\* Longest column list and value list of an insert.
MaxColumns == 2

\* Largest row count, and most rows, of a driver result.
MaxRowCount == 1
MaxRows == 1

\* ------------------------------------------------------------ JS values

\* The optional parameters argument: omitted, or an object with own keys.
Omitted == [given |-> FALSE]
Given(map) == [given |-> TRUE, map |-> map]

\* JavaScript null, undefined, arrays, numbers and booleans.
JsNull == [tag |-> "null"]
JsUndefined == [tag |-> "undefined"]
JsArray(items) == [tag |-> "array", items |-> items]
JsNumber(n) == [tag |-> "number", number |-> n]
JsBoolean(b) == [tag |-> "boolean", boolean |-> b]

\* Lexemes matched by the character class [A-Za-z_] of the token pattern.
IdentChars == {"a", "_", "constructor"}

\* Lexemes of the templates of the preparation specification.
Alphabet == {"@", "a", "_", "1", "$", " "}

\* Values a caller binds to a parameter name.
Values == {"v1", "v2"}

\* Names a caller may bind in a parameters object.
ParamNames == {<<"a">>, <<"_">>}

\* Property names every object literal inherits (those the token pattern can
\* spell with the lexemes of the model), and the value read through them.
ObjectPrototypeKeys == {<<"constructor">>}
InheritedValue == "Object"

\* The positional markers of the specification: the default and the two
\* overrides it names.
Markers == {"$", "?", ":"}

\* Decimal digits of a positive counter, as `${index}` prints it.
Digit(d) == <<"0", "1", "2", "3", "4", "5", "6", "7", "8", "9">>[d + 1]

RECURSIVE IndexString(_)
IndexString(n) == IF n < 10 THEN <<Digit(n)>>
                  ELSE IndexString(n \div 10) \o <<Digit(n % 10)>>

\* ------------------------------------------------------- the token pattern

NoMatch == [start |-> 0, len |-> 0]

\* Length of the run of identifier lexemes of s starting at position p.
RECURSIVE IdentRun(_, _)
IdentRun(s, p) == IF p <= Len(s) /\ s[p] \in IdentChars
                  THEN 1 + IdentRun(s, p + 1)
                  ELSE 0

\* Start positions of the matches of /@([A-Za-z_]+)/ in s.
MatchStarts(s) == {p \in 1..Len(s) : s[p] = "@" /\ IdentRun(s, p + 1) > 0}

\* s.match(/@([A-Za-z_]+)/): the leftmost match, its group taken greedily;
\* len counts the "@" too.
Match(s) ==
  IF MatchStarts(s) = {} THEN NoMatch
  ELSE LET p == CHOOSE q \in MatchStarts(s) : \A r \in MatchStarts(s) : q <= r
       IN [start |-> p, len |-> 1 + IdentRun(s, p + 1)]

\* Positions at which pat occurs in s as a substring.
Occurrences(s, pat) ==
  {i \in 1..(Len(s) - Len(pat) + 1) : SubSeq(s, i, i + Len(pat) - 1) = pat}

\* A replace that rewrites every occurrence of pat, as a global pattern would.
RECURSIVE ReplaceEvery(_, _, _)
ReplaceEvery(s, pat, rep) ==
  IF Occurrences(s, pat) = {} THEN s
  ELSE LET i == CHOOSE j \in Occurrences(s, pat) :
                  \A k \in Occurrences(s, pat) : j <= k
       IN SubSeq(s, 1, i - 1) \o rep
            \o ReplaceEvery(SubSeq(s, i + Len(pat), Len(s)), pat, rep)

\* s.replace(pat, rep) with a string pattern: the first occurrence of pat is
\* replaced, the rest is kept.  rep is inserted as it is: a string pattern has
\* no capture group, so "$" followed by digits is not a substitution.
Replace(s, pat, rep) ==
  IF Occurrences(s, pat) = {} THEN s
  ELSE LET i == CHOOSE j \in Occurrences(s, pat) :
                  \A k \in Occurrences(s, pat) : j <= k
       IN SubSeq(s, 1, i - 1) \o rep \o SubSeq(s, i + Len(pat), Len(s))

\* ------------------------------------------------------------ parameters

\* `name in parameters` for a parameters object: own and inherited keys.
HasKey(params, name) ==
  name \in DOMAIN params.map \/ name \in ObjectPrototypeKeys

\* parameters[name].
Lookup(params, name) ==
  IF name \in DOMAIN params.map THEN params.map[name]
  ELSE InheritedValue

\* --------------------------------------------------------------- prepare

\* What a call of prepare gives its caller: the pair it returns, or the error
\* it throws (an error carries the token it names and nothing else).
Returned(sql, values) ==
  [status |-> "ok", preparedSQL |-> sql, preparedValues |-> values]
Thrown(error, token) == [status |-> error, variableName |-> token]

\* The while loop of both prepare methods from one test of its condition on:
\* preparedSQL, preparedValues and index are the locals, marker the text put
\* before the counter.  onOmitted is the error of an iteration that finds the
\* parameters omitted.
RECURSIVE PrepareLoop(_, _, _, _, _, _)
PrepareLoop(preparedSQL, preparedValues, index, params, marker, onOmitted) ==
  LET match == Match(preparedSQL) IN
  IF match = NoMatch THEN Returned(preparedSQL, preparedValues)
  ELSE
    LET variableName ==
          SubSeq(preparedSQL, match.start, match.start + match.len - 1)
        baseVariableName == Tail(variableName)
    IN IF ~params.given THEN Thrown(onOmitted, variableName)
       ELSE IF ~HasKey(params, baseVariableName)
       THEN Thrown("MissingParameter", variableName)
       ELSE PrepareLoop(
              Replace(preparedSQL, variableName, marker \o IndexString(index)),
              Append(preparedValues, Lookup(params, baseVariableName)),
              index + 1, params, marker, onOmitted)

\* SlimNodePostgres.prepare(sql, parameters).
prepare(sql, params) ==
  LET r == PrepareLoop(sql, <<>>, 1, params, <<"$">>, "MissingParameter")
  IN IF r.status = "ok"
     THEN Returned(r.preparedSQL, JsArray(r.preparedValues))
     ELSE r

\* PostgresPreparedStatement.prepare() of a statement built from sqlString
\* and parameters whose replaceValuesWith is the given marker.  `in` applied
\* to an omitted parameters object throws a TypeError.
StatementPrepare(sql, params, marker) ==
  LET r == PrepareLoop(sql, <<>>, 1, params, <<marker>>,
                       "TypeError")
  IN IF r.status = "ok"
     THEN Returned(r.preparedSQL,
                   IF Len(r.preparedValues) > 0
                   THEN JsArray(r.preparedValues) ELSE JsNull)
     ELSE r

\* ------------------------------------------- the preparation specification

\* A PostgresPreparedStatement (sqlString, parameters, replaceValuesWith) and
\* what the last call of a prepare method on its template and parameters
\* gave: parsed.by names the method, parsed.marker the marker it used.
VARIABLES sqlString, parameters, replaceValuesWith, parsed

\* A call of a prepare method in progress: loop.pc is its position, and while
\* it is in the while loop loop.preparedSQL, loop.preparedValues and
\* loop.index are its locals.  loop.iterations counts the times the loop body
\* was entered.
VARIABLE loop

prepVars == <<sqlString, parameters, replaceValuesWith, parsed, loop>>

\* The facade: its pool field (NoPool is null), the pg pools it has created,
\* the number of end() calls each pool has received, the asynchronous calls
\* awaiting the driver, the last pool.query(sql, values) call made, and the
\* outcome of the last call to complete.
VARIABLES pool, poolState, endCalls, inflight, sent, ret

facadeVars == <<pool, poolState, endCalls, inflight, sent, ret>>

vars == <<prepVars, facadeVars>>

Templates == UNION {[1..n -> Alphabet] : n \in 0..MaxLen}

ParameterObjects ==
  {Omitted} \cup
  {Given(map) : map \in UNION {[keys -> Values] : keys \in SUBSET ParamNames}}

NotCalled == [by |-> "none"]

\* No call of a prepare method has begun.
LoopIdle == [pc |-> "idle"]

\* new PostgresPreparedStatement(pool, sqlString, parameters).
StatementInit ==
  /\ sqlString \in Templates
  /\ parameters \in ParameterObjects
  /\ replaceValuesWith = "$"
  /\ parsed = NotCalled
  /\ loop = LoopIdle

\* PostgresPreparedStatement.setReplaceValuesWith(marker).
setReplaceValuesWith ==
  /\ \E marker \in Markers : replaceValuesWith' = marker
  /\ UNCHANGED <<sqlString, parameters, parsed, loop>>
  /\ UNCHANGED facadeVars

\* A call of PostgresPreparedStatement.prepare().
CallStatementPrepare ==
  /\ parsed' = [by |-> "PostgresPreparedStatement",
                marker |-> replaceValuesWith,
                result |-> StatementPrepare(sqlString, parameters,
                                            replaceValuesWith)]
  /\ UNCHANGED <<sqlString, parameters, replaceValuesWith, loop>>
  /\ UNCHANGED facadeVars

\* A call of SlimNodePostgres.prepare(sqlString, parameters).
CallPrepare ==
  /\ parsed' = [by |-> "SlimNodePostgres",
                marker |-> "$",
                result |-> prepare(sqlString, parameters)]
  /\ UNCHANGED <<sqlString, parameters, replaceValuesWith, loop>>
  /\ UNCHANGED facadeVars

\* ------------------------------------------------------------- the driver

\* The facade's pool field holds a pg pool or null.
NoPool == 0
Pools == 1..MaxPools

\* The rows and results pool.query resolves with, and its calls.
Ids == {JsNumber(7)}
Rows == UNION {[1..n -> [id : Ids]] : n \in 0..MaxRows}
DriverResults == [rowCount : 0..MaxRowCount, rows : Rows]

NothingSent == [made |-> FALSE]
Sent(by, sql, values) ==
  [made |-> TRUE, by |-> by, sql |-> sql, values |-> values]

\* The outcome of a call: the value it returns (an async method's promise
\* resolves with) or the error it throws (its promise rejects with).
NoCall == [op |-> "none"]
Return(op, value) == [op |-> op, status |-> "returned", value |-> value]
Throw(op, error) == [op |-> op, status |-> "threw", error |-> error]

\* An asynchronous call awaiting the driver: pool.end() of pool `on`, or a
\* pool.query.
Awaiting(op, on) == [op |-> op, on |-> on]

\* The templates and parameters of the facade's callers.
QueryTemplates ==
  { <<"1">>,
    <<"@", "a", "@", "_">>,
    <<"@", "constructor">> }

QueryParameters ==
  { Omitted,
    Given(<<"a">> :> "v1"),
    Given((<<"a">> :> "v1") @@ (<<"_">> :> "v2")) }

\* The two prepare methods on the callers' templates and parameters.
Prepared ==
  [sql \in QueryTemplates, params \in QueryParameters |-> prepare(sql, params)]

StatementPrepared ==
  [sql \in QueryTemplates, params \in QueryParameters |->
     IF params.given THEN StatementPrepare(sql, params, "$") ELSE NotCalled]

\* The methods that return what query resolves with, reshaped.
QueryOps == {"query", "getOne", "getValue", "exists"}

\* new SlimNodePostgres(config): the constructor opens the first pool.
FacadeInit ==
  /\ pool = 1
  /\ poolState = [p \in Pools |-> IF p = 1 THEN "open" ELSE "unborn"]
  /\ endCalls = [p \in Pools |-> 0]
  /\ inflight = {}
  /\ sent = NothingSent
  /\ ret = NoCall

\* A statement no prepare method has been called on.
StatementIdle ==
  /\ sqlString = <<>>
  /\ parameters = Omitted
  /\ replaceValuesWith = "$"
  /\ parsed = NotCalled
  /\ loop = LoopIdle

\* pool.query(sql, values) is called for the asynchronous method op, which
\* then awaits it.  The callers of the query methods await each call before
\* they make the next, as the functional tests do; close and connect are
\* called at any time.
Forward(op, by, sql, values) ==
  /\ \A call \in inflight : call.op = "close"
  /\ sent' = Sent(by, sql, values)
  /\ inflight' = inflight \cup {Awaiting(op, NoPool)}
  /\ UNCHANGED <<pool, poolState, endCalls, ret>>

\* A call ends at once with the given outcome and touches nothing else.
Outcome(outcome) ==
  /\ ret' = outcome
  /\ UNCHANGED <<pool, poolState, endCalls, inflight, sent>>

\* The awaited pool.query of method op settles and the method ends with the
\* given outcome.
Resume(op, outcome) ==
  /\ Awaiting(op, NoPool) \in inflight
  /\ inflight' = inflight \ {Awaiting(op, NoPool)}
  /\ ret' = outcome
  /\ UNCHANGED <<pool, poolState, endCalls, sent>>

\* ------------------------------------------------------------ the facade

\* hasOpenPool comparing the pool field with undefined, which null is not.
hasOpenPoolUndefinedTest ==
  /\ ret' = Return("hasOpenPool", JsBoolean(TRUE))
  /\ UNCHANGED <<pool, poolState, endCalls, inflight, sent>>
  /\ UNCHANGED prepVars

\* SlimNodePostgres.hasOpenPool().
hasOpenPool ==
  /\ ret' = Return("hasOpenPool", JsBoolean(pool # NoPool))
  /\ UNCHANGED <<pool, poolState, endCalls, inflight, sent>>
  /\ UNCHANGED prepVars

\* connect without its test of the pool field.
connectUnguarded ==
  /\ \E p \in Pools :
       /\ poolState[p] = "unborn"
       /\ \A q \in 1..(p - 1) : poolState[q] # "unborn"
       /\ pool' = p
       /\ poolState' = [poolState EXCEPT ![p] = "open"]
  /\ ret' = Return("connect", JsUndefined)
  /\ UNCHANGED <<endCalls, inflight, sent>>
  /\ UNCHANGED prepVars

\* SlimNodePostgres.connect(): throws when the pool field is set, else opens
\* a new pool.
connect ==
  /\ \/ /\ pool # NoPool
        /\ Outcome(Throw("connect", "PoolAlreadyExistsError"))
     \/ /\ pool = NoPool
        /\ \E p \in Pools :
             /\ poolState[p] = "unborn"
             /\ \A q \in 1..(p - 1) : poolState[q] # "unborn"
             /\ pool' = p
             /\ poolState' = [poolState EXCEPT ![p] = "open"]
        /\ ret' = Return("connect", JsUndefined)
        /\ UNCHANGED <<endCalls, inflight, sent>>
  /\ UNCHANGED prepVars

\* SlimNodePostgres.close() up to its await: with no pool it sets the field to
\* null and ends; with one it calls pool.end() and awaits it.  pg rejects a
\* call of end() on a pool that has been ended before, and close rejects
\* with it.
close ==
  /\ \/ /\ pool = NoPool
        /\ pool' = NoPool
        /\ ret' = Return("close", JsUndefined)
        /\ UNCHANGED <<poolState, endCalls, inflight, sent>>
     \/ /\ pool # NoPool
        /\ endCalls[pool] < MaxEndCalls
        /\ endCalls' = [endCalls EXCEPT ![pool] = @ + 1]
        /\ \/ /\ poolState[pool] = "open"
              /\ poolState' = [poolState EXCEPT ![pool] = "ending"]
              /\ inflight' = inflight \cup {Awaiting("close", pool)}
              /\ UNCHANGED <<pool, sent, ret>>
           \/ /\ poolState[pool] # "open"
              /\ ret' = Throw("close", "DriverError")
              /\ UNCHANGED <<pool, poolState, inflight, sent>>
  /\ UNCHANGED prepVars

\* The driver finishes ending pool p: the promise of its end() resolves.
poolEnded(p) ==
  /\ poolState[p] = "ending"
  /\ poolState' = [poolState EXCEPT ![p] = "ended"]
  /\ UNCHANGED <<pool, endCalls, inflight, sent, ret>>
  /\ UNCHANGED prepVars

\* close continuing without awaiting the promise of end().
closeResumeUnawaited(p) ==
  /\ Awaiting("close", p) \in inflight
  /\ inflight' = inflight \ {Awaiting("close", p)}
  /\ pool' = NoPool
  /\ ret' = Return("close", JsUndefined)
  /\ UNCHANGED <<poolState, endCalls, sent>>
  /\ UNCHANGED prepVars

\* SlimNodePostgres.close() after its await of the end() of pool p: the pool
\* field is set to null and the promise of close resolves.
closeResume(p) ==
  /\ Awaiting("close", p) \in inflight
  /\ poolState[p] = "ended"
  /\ inflight' = inflight \ {Awaiting("close", p)}
  /\ pool' = NoPool
  /\ ret' = Return("close", JsUndefined)
  /\ UNCHANGED <<poolState, endCalls, sent>>
  /\ UNCHANGED prepVars

\* The shared body of query and execute calling query on the pool field
\* whatever it holds, as if null could take the call.
PrepareAndForwardAnyPool(op, sql, params) ==
  LET preparedStatement == Prepared[sql, params] IN
  IF preparedStatement.status # "ok"
  THEN Outcome(Throw(op, preparedStatement.status))
  ELSE Forward(op, "SlimNodePostgres", preparedStatement.preparedSQL,
               preparedStatement.preparedValues)

\* The body shared by SlimNodePostgres.query and SlimNodePostgres.execute up
\* to the await: prepare, then this.pool.query, which throws a TypeError on a
\* null pool field.
PrepareAndForward(op, sql, params) ==
  LET preparedStatement == Prepared[sql, params] IN
  IF preparedStatement.status # "ok"
  THEN Outcome(Throw(op, preparedStatement.status))
  ELSE IF pool = NoPool
  THEN Outcome(Throw(op, "TypeError"))
  ELSE Forward(op, "SlimNodePostgres", preparedStatement.preparedSQL,
               preparedStatement.preparedValues)

\* SlimNodePostgres.query(sql, params), called directly (op = "query") or by
\* getOne, getValue or exists, up to its await.
query(op, sql, params) ==
  /\ op \in QueryOps
  /\ PrepareAndForward(op, sql, params)
  /\ UNCHANGED prepVars

\* What query, getOne, getValue (of column id) and exists make of the rows.
QueryValue(op, rows) ==
  CASE op = "query" -> JsArray(rows)
    [] op = "getOne" -> IF Len(rows) > 0 THEN rows[1] ELSE JsNull
    [] op = "getValue" -> IF Len(rows) > 0 THEN rows[1].id ELSE JsNull
    [] op = "exists" -> JsBoolean(Len(rows) > 0)

\* The awaited pool.query of query resolves with result.
queryReturn(op, result) ==
  /\ op \in QueryOps
  /\ Resume(op, Return(op, QueryValue(op, result.rows)))
  /\ UNCHANGED prepVars

\* SlimNodePostgres.execute(sql, params) up to its await.
execute(sql, params) ==
  /\ PrepareAndForward("execute", sql, params)
  /\ UNCHANGED prepVars

\* execute reporting no changed rows.
executeReturnNoneChanged(result) ==
  /\ Resume("execute", Return("execute",
       [affectedRows |-> result.rowCount, changedRows |-> 0]))
  /\ UNCHANGED prepVars

\* The awaited pool.query of execute resolves with result.
executeReturn(result) ==
  /\ Resume("execute", Return("execute",
       [affectedRows |-> result.rowCount, changedRows |-> result.rowCount]))
  /\ UNCHANGED prepVars

\* escapeIdentifier(identifier): double quotes around it, each of its own
\* double quotes doubled.
RECURSIVE DoubleQuotes(_)
DoubleQuotes(identifier) ==
  IF identifier = <<>> THEN <<>>
  ELSE (IF Head(identifier) = "\"" THEN <<"\"", "\"">> ELSE <<Head(identifier)>>)
         \o DoubleQuotes(Tail(identifier))

escapeIdentifier(identifier) == <<"\"">> \o DoubleQuotes(identifier) \o <<"\"">>

\* parts.join(', ') of a sequence of strings.
RECURSIVE Join(_)
Join(parts) ==
  IF parts = <<>> THEN <<>>
  ELSE IF Len(parts) = 1 THEN parts[1]
  ELSE parts[1] \o <<",", " ">> \o Join(Tail(parts))

\* The INSERT statement of insert; its fixed text is one lexeme a piece.
InsertSQL(tableName, columns, values) ==
  <<"INSERT INTO ">> \o escapeIdentifier(tableName) \o <<" (">>
    \o Join([i \in 1..Len(columns) |-> escapeIdentifier(columns[i])])
    \o <<") VALUES (">>
    \o Join([i \in 1..Len(values) |-> <<"$">> \o IndexString(i)])
    \o <<") RETURNING id">>

\* The tables, column lists and value lists of the callers of insert.
TableNames == {<<"t">>}
ColumnLists == {[i \in 1..n |-> <<"c">>] : n \in 0..MaxColumns}
ValueLists == {[i \in 1..n |-> "v1"] : n \in 0..MaxColumns}

\* insert without its test of the two lengths.
insertUnchecked(tableName, columns, values) ==
  /\ IF pool = NoPool
     THEN Outcome(Throw("insert", "TypeError"))
     ELSE Forward("insert", "SlimNodePostgres",
                  InsertSQL(tableName, columns, values), JsArray(values))
  /\ UNCHANGED prepVars

\* SlimNodePostgres.insert(tableName, columns, values) up to its await.
insert(tableName, columns, values) ==
  /\ IF Len(columns) # Len(values)
     THEN Outcome(Throw("insert", "ColumnsLengthMismatch"))
     ELSE IF pool = NoPool
     THEN Outcome(Throw("insert", "TypeError"))
     ELSE Forward("insert", "SlimNodePostgres",
                  InsertSQL(tableName, columns, values), JsArray(values))
  /\ UNCHANGED prepVars

\* The result object of insert and of SlimNodePostgresPool.execute.
InsertResult(result) ==
  [affectedRows |-> result.rowCount,
   changedRows |-> result.rowCount,
   insertId |-> IF Len(result.rows) > 0 THEN result.rows[1].id ELSE JsNull]

\* The awaited pool.query of insert resolves with result.
insertReturn(result) ==
  /\ Resume("insert", Return("insert", InsertResult(result)))
  /\ UNCHANGED prepVars

\* ------------------------------------------------- SlimNodePostgresPool

\* The body shared by SlimNodePostgresPool.query and .execute up to the
\* await: a statement is prepared only when parameters are passed.
PoolPrepareAndForward(op, sql, params) ==
  IF params.given
  THEN LET preparedStatement == StatementPrepared[sql, params] IN
       IF preparedStatement.status # "ok"
       THEN Outcome(Throw(op, preparedStatement.status))
       ELSE Forward(op, "SlimNodePostgresPool", preparedStatement.preparedSQL,
                    preparedStatement.preparedValues)
  ELSE Forward(op, "SlimNodePostgresPool", sql, JsUndefined)

\* SlimNodePostgresPool.query(sql, params) up to its await.
poolQuery(sql, params) ==
  /\ PoolPrepareAndForward("poolQuery", sql, params)
  /\ UNCHANGED prepVars

\* The awaited pool.query of SlimNodePostgresPool.query resolves.
poolQueryReturn(result) ==
  /\ Resume("poolQuery", Return("poolQuery", JsArray(result.rows)))
  /\ UNCHANGED prepVars

\* SlimNodePostgresPool.execute(sql, params) up to its await.
poolExecute(sql, params) ==
  /\ PoolPrepareAndForward("poolExecute", sql, params)
  /\ UNCHANGED prepVars

\* The awaited pool.query of SlimNodePostgresPool.execute resolves.
poolExecuteReturn(result) ==
  /\ Resume("poolExecute", Return("poolExecute", InsertResult(result)))
  /\ UNCHANGED prepVars

\* The awaited pool.query of method op rejects: the method rejects with the
\* driver's error.
queryRejected(op) ==
  /\ Resume(op, Throw(op, "DriverError"))
  /\ UNCHANGED prepVars

FacadeAsyncOps == QueryOps \cup {"execute", "insert"}
PoolAsyncOps == {"poolQuery", "poolExecute"}

\* ------------------------------------------------------ specifications

Init == StatementIdle /\ FacadeInit

Next ==
  \/ hasOpenPool
  \/ connect
  \/ close
  \/ \E p \in Pools : poolEnded(p)
  \/ \E p \in Pools : closeResume(p)
  \/ \E op \in QueryOps, sql \in QueryTemplates, params \in QueryParameters :
       query(op, sql, params)
  \/ \E op \in QueryOps, result \in DriverResults : queryReturn(op, result)
  \/ \E sql \in QueryTemplates, params \in QueryParameters : execute(sql, params)
  \/ \E result \in DriverResults : executeReturn(result)
  \/ \E tableName \in TableNames, columns \in ColumnLists, values \in ValueLists :
       insert(tableName, columns, values)
  \/ \E result \in DriverResults : insertReturn(result)
  \/ \E op \in FacadeAsyncOps : queryRejected(op)

Spec == Init /\ [][Next]_vars

\* A SlimNodePostgresPool on its own.
PoolNext ==
  \/ \E sql \in QueryTemplates, params \in QueryParameters : poolQuery(sql, params)
  \/ \E result \in DriverResults : poolQueryReturn(result)
  \/ \E sql \in QueryTemplates, params \in QueryParameters : poolExecute(sql, params)
  \/ \E result \in DriverResults : poolExecuteReturn(result)
  \/ \E op \in PoolAsyncOps : queryRejected(op)

PoolSpec == Init /\ [][PoolNext]_vars

PrepInit == StatementInit /\ FacadeInit

PrepNext == setReplaceValuesWith \/ CallStatementPrepare \/ CallPrepare

PrepSpec == PrepInit /\ [][PrepNext]_vars

\* ------------------------------------- the while loop, an iteration a step

\* The templates and parameters of the stepped calls.
LoopAlphabet == {"@", "a", "_", "1"}
LoopTemplates == UNION {[1..n -> LoopAlphabet] : n \in 0..MaxLen}
LoopParameters == {Omitted, Given(<<"a">> :> "v1")}

Methods == {"PostgresPreparedStatement", "SlimNodePostgres"}

\* The text a method puts before the counter.
MarkerOf(by) ==
  IF by = "PostgresPreparedStatement" THEN replaceValuesWith ELSE "$"

LoopInit ==
  /\ sqlString \in LoopTemplates
  /\ parameters \in LoopParameters
  /\ replaceValuesWith = "$"
  /\ parsed = NotCalled
  /\ loop = LoopIdle
  /\ FacadeInit

\* A prepare method is called and initialises its locals.  The method runs
\* to its end before another call begins; parsed holds nothing until then.
BeginPrepare(by) ==
  /\ loop.pc # "while"
  /\ loop' = [pc |-> "while", by |-> by, preparedSQL |-> sqlString,
              preparedValues |-> <<>>, index |-> 1, iterations |-> 0]
  /\ parsed' = NotCalled
  /\ UNCHANGED <<sqlString, parameters, replaceValuesWith>>
  /\ UNCHANGED facadeVars

\* The call in progress ends with the given result.
LoopEnds(pc, result) ==
  /\ loop' = [loop EXCEPT !.pc = pc,
                          !.iterations = IF pc = "threw" THEN @ + 1 ELSE @]
  /\ parsed' = [by |-> loop.by, marker |-> MarkerOf(loop.by), result |-> result]

\* The loop body with the result of replace dropped instead of assigned to
\* preparedSQL.
LoopBodyDroppedAssignment ==
  /\ loop.pc = "while"
  /\ Match(loop.preparedSQL) # NoMatch
  /\ LET match == Match(loop.preparedSQL)
         variableName ==
           SubSeq(loop.preparedSQL, match.start, match.start + match.len - 1)
         baseVariableName == Tail(variableName)
     IN IF ~parameters.given
        THEN LoopEnds("threw",
               Thrown(IF loop.by = "PostgresPreparedStatement"
                      THEN "TypeError" ELSE "MissingParameter", variableName))
        ELSE IF ~HasKey(parameters, baseVariableName)
        THEN LoopEnds("threw", Thrown("MissingParameter", variableName))
        ELSE /\ loop' = [loop EXCEPT
                           !.preparedValues =
                             Append(@, Lookup(parameters, baseVariableName)),
                           !.index = @ + 1,
                           !.iterations = @ + 1]
             /\ UNCHANGED parsed
  /\ UNCHANGED <<sqlString, parameters, replaceValuesWith>>
  /\ UNCHANGED facadeVars

\* One iteration of the while loop of a prepare method: the pattern matches,
\* and the body throws or replaces the first occurrence of the matched token.
LoopBody ==
  /\ loop.pc = "while"
  /\ Match(loop.preparedSQL) # NoMatch
  /\ LET match == Match(loop.preparedSQL)
         variableName ==
           SubSeq(loop.preparedSQL, match.start, match.start + match.len - 1)
         baseVariableName == Tail(variableName)
     IN IF ~parameters.given
        THEN LoopEnds("threw",
               Thrown(IF loop.by = "PostgresPreparedStatement"
                      THEN "TypeError" ELSE "MissingParameter", variableName))
        ELSE IF ~HasKey(parameters, baseVariableName)
        THEN LoopEnds("threw", Thrown("MissingParameter", variableName))
        ELSE /\ loop' = [loop EXCEPT
                           !.preparedSQL =
                             Replace(@, variableName,
                                     <<MarkerOf(loop.by)>> \o IndexString(loop.index)),
                           !.preparedValues =
                             Append(@, Lookup(parameters, baseVariableName)),
                           !.index = @ + 1,
                           !.iterations = @ + 1]
             /\ UNCHANGED parsed
  /\ UNCHANGED <<sqlString, parameters, replaceValuesWith>>
  /\ UNCHANGED facadeVars

\* The pattern no longer matches: the loop is left and the method returns.
LoopExit ==
  /\ loop.pc = "while"
  /\ Match(loop.preparedSQL) = NoMatch
  /\ LoopEnds("returned",
       Returned(loop.preparedSQL,
                IF loop.by = "PostgresPreparedStatement" /\ loop.preparedValues = <<>>
                THEN JsNull ELSE JsArray(loop.preparedValues)))
  /\ UNCHANGED <<sqlString, parameters, replaceValuesWith>>
  /\ UNCHANGED facadeVars

LoopStep == LoopBody \/ LoopExit

LoopNext ==
  \/ (loop.pc # "while" /\ setReplaceValuesWith)
  \/ \E by \in Methods : BeginPrepare(by)
  \/ LoopBody
  \/ LoopExit

\* A prepare method is synchronous: once called it runs on until it returns
\* or throws.
LoopSpec == LoopInit /\ [][LoopNext]_vars /\ WF_vars(LoopStep)

\* The stepped loop gives what the prepare methods give.
LoopComputesPrepare ==
  loop.pc \in {"returned", "threw"} =>
    parsed.result = IF loop.by = "PostgresPreparedStatement"
                    THEN StatementPrepare(sqlString, parameters, parsed.marker)
                    ELSE prepare(sqlString, parameters)

\* ------------------------------------------------ one-pass token reading

\* The token occurrences of a template, left to right: one scan that steps
\* over each token it finds.
RECURSIVE TokensFrom(_, _)
TokensFrom(s, p) ==
  IF p > Len(s) THEN <<>>
  ELSE IF s[p] = "@" /\ IdentRun(s, p + 1) > 0
  THEN <<SubSeq(s, p + 1, p + IdentRun(s, p + 1))>>
         \o TokensFrom(s, p + 1 + IdentRun(s, p + 1))
  ELSE TokensFrom(s, p + 1)

Tokens(s) == TokensFrom(s, 1)

\* The template with its i-th token occurrence replaced by marker and i,
\* from position p on, i - 1 occurrences lying before p.
RECURSIVE RewriteFrom(_, _, _, _)
RewriteFrom(s, p, i, marker) ==
  IF p > Len(s) THEN <<>>
  ELSE IF s[p] = "@" /\ IdentRun(s, p + 1) > 0
  THEN <<marker>> \o IndexString(i)
         \o RewriteFrom(s, p + 1 + IdentRun(s, p + 1), i + 1, marker)
  ELSE <<s[p]>> \o RewriteFrom(s, p + 1, i, marker)

Rewritten(s, marker) == RewriteFrom(s, 1, 1, marker)

\* Every token occurrence names an own key of the parameters.
AllTokensBound(s, params) ==
  \/ Tokens(s) = <<>>
  \/ /\ params.given
     /\ \A i \in 1..Len(Tokens(s)) : Tokens(s)[i] \in DOMAIN params.map

\* The parameter values of the token occurrences, in order.
TokenValues(s, params) ==
  [i \in 1..Len(Tokens(s)) |-> params.map[Tokens(s)[i]]]

\* -------------------------------------------------------------- claims

\* C1 as stated: whenever every token occurrence of the template has a
\* matching key, a prepare method returns the template with the i-th
\* occurrence replaced by the marker and i, and the sequence of the
\* occurrences' parameter values, which is the empty sequence for a template
\* without tokens.
C1_AsStated ==
  (parsed.by # "none" /\ AllTokensBound(sqlString, parameters)) =>
    /\ parsed.result.status = "ok"
    /\ parsed.result.preparedSQL = Rewritten(sqlString, parsed.marker)
    /\ parsed.result.preparedValues = JsArray(TokenValues(sqlString, parameters))

\* C1 as amended: the same, except that PostgresPreparedStatement.prepare
\* returns null in place of the value sequence for a template without tokens.
C1_PrepareRewritesOccurrences ==
  (parsed.by # "none" /\ AllTokensBound(sqlString, parameters)) =>
    /\ parsed.result.status = "ok"
    /\ parsed.result.preparedSQL = Rewritten(sqlString, parsed.marker)
    /\ parsed.result.preparedValues =
         IF parsed.by = "PostgresPreparedStatement" /\ Tokens(sqlString) = <<>>
         THEN JsNull
         ELSE JsArray(TokenValues(sqlString, parameters))

\* C1 witness: a statement whose template repeats a token has been prepared
\* with an overridden marker, giving two placeholders and two values.
C1_Witness ==
  /\ sqlString = <<"@", "a", "@", "a">>
  /\ parsed.by = "PostgresPreparedStatement"
  /\ parsed.marker = "?"
  /\ parsed.result.status = "ok"
  /\ parsed.result.preparedSQL = <<"?", "1", "?", "2">>
  /\ parsed.result.preparedValues = JsArray(<<"v1", "v1">>)

\* The decimal digits, and the number a run of them writes.
DigitChars == {"0", "1", "2", "3", "4", "5", "6", "7", "8", "9"}

DigitValue(c) == CHOOSE d \in 0..9 : Digit(d) = c

RECURSIVE DigitRun(_, _)
DigitRun(s, p) == IF p <= Len(s) /\ s[p] \in DigitChars
                  THEN 1 + DigitRun(s, p + 1)
                  ELSE 0

RECURSIVE NumberOf(_)
NumberOf(digits) ==
  IF digits = <<>> THEN 0
  ELSE 10 * NumberOf(SubSeq(digits, 1, Len(digits) - 1))
         + DigitValue(digits[Len(digits)])

\* The placeholder numbers of a positional query: each marker followed by
\* digits, read with its maximal run of digits.
PlaceholderNumbers(sql, marker) ==
  {NumberOf(SubSeq(sql, p + 1, p + DigitRun(sql, p + 1))) :
     p \in {q \in 1..Len(sql) : sql[q] = marker /\ DigitRun(sql, q + 1) > 0}}

\* The number of values of a prepared statement (null holds none).
ValueCount(values) == IF values = JsNull THEN 0 ELSE Len(values.items)

\* C3: for a template that does not contain the marker and whose tokens
\* all have matching keys, the placeholder numbers of the rewritten SQL are
\* exactly 1..n, n the number of returned values.
C3_PlaceholdersMatchValues ==
  (/\ parsed.by # "none"
   /\ AllTokensBound(sqlString, parameters)
   /\ \A p \in 1..Len(sqlString) : sqlString[p] # parsed.marker
   /\ parsed.result.status = "ok") =>
    PlaceholderNumbers(parsed.result.preparedSQL, parsed.marker)
      = 1..ValueCount(parsed.result.preparedValues)

\* The facade is Connected: it holds a pool, and the pool is open.
Connected == pool # NoPool /\ poolState[pool] = "open"

\* Every close() begun has completed.
NoCloseInFlight == \A call \in inflight : call.op # "close"

\* C2: a query or execute whose template references a name that is not a
\* key of the parameters fails with the missing-parameter error and forwards
\* no query to the pool.
C2_MissingParameterRejected ==
  [][\A sql \in QueryTemplates, params \in QueryParameters :
       \A op \in QueryOps \cup {"execute"} :
         ((IF op = "execute" THEN execute(sql, params)
                             ELSE query(op, sql, params))
          /\ ~AllTokensBound(sql, params))
         => (/\ ret' = Throw(op, "MissingParameter")
             /\ UNCHANGED <<inflight, sent>>)]_vars

\* C4: no SQL string that still contains an @identifier token reaches
\* pool.query, on any query path.
C4_NoTokenReachesPool ==
  sent.made => Match(sent.sql) = NoMatch

\* C5: once every connect() and close() has completed, hasOpenPool() returns
\* true exactly when the facade is Connected, and it changes no state.
C5_HasOpenPoolTellsConnected ==
  [][(hasOpenPool /\ NoCloseInFlight)
       => (/\ ret' = Return("hasOpenPool", JsBoolean(Connected))
           /\ UNCHANGED <<pool, poolState, endCalls, inflight, sent>>)]_vars

\* C5 witness: after construction, a completed close() and a connect(),
\* hasOpenPool() has returned true on the second pool.
C5_Witness ==
  /\ ret = Return("hasOpenPool", JsBoolean(TRUE))
  /\ pool = 2
  /\ poolState[1] = "ended"
  /\ inflight = {}

\* C6: connect() on a Connected facade throws the pool-already-open error,
\* creates no pool and leaves the pool field and its open pool as they were.
C6_ConnectWhileConnectedThrows ==
  [][(connect /\ Connected)
       => (/\ ret' = Throw("connect", "PoolAlreadyExistsError")
           /\ UNCHANGED <<pool, poolState, endCalls>>)]_vars

\* C6 witness: connect() has thrown on the pool a previous connect() opened.
C6_Witness ==
  /\ ret = Throw("connect", "PoolAlreadyExistsError")
  /\ pool = 2
  /\ poolState[2] = "open"

\* C7: when close() on a facade with a pool returns, that pool's end() has
\* completed and the facade is Disconnected; a connect() then succeeds, and
\* every pool other than the new one has finished ending.
C7_CloseAwaitsEnd ==
  [][/\ \A p \in Pools :
          closeResume(p) => (poolState'[p] = "ended" /\ pool' = NoPool)
     /\ (connect /\ pool = NoPool)
          => (/\ ret' = Return("connect", JsUndefined)
              /\ poolState'[pool'] = "open"
              /\ \A q \in Pools \ {pool'} :
                   poolState'[q] \in {"unborn", "ended"})]_vars

\* C7 witness: a connect() made after close() returned has opened the second
\* pool, the first having ended.
C7_Witness ==
  /\ ret = Return("connect", JsUndefined)
  /\ pool = 2
  /\ poolState = [p \in Pools |->
                    IF p = 1 THEN "ended" ELSE IF p = 2 THEN "open" ELSE "unborn"]

\* C8: insert with column and value lists of different lengths throws the
\* mismatch error, forwards no query and leaves the pool state unchanged.
C8_InsertMismatchThrows ==
  [][\A tableName \in TableNames, columns \in ColumnLists, values \in ValueLists :
       (insert(tableName, columns, values) /\ Len(columns) # Len(values))
         => (/\ ret' = Throw("insert", "ColumnsLengthMismatch")
             /\ UNCHANGED <<pool, poolState, endCalls, inflight, sent>>)]_vars

\* C8 witness: the mismatch error has been thrown on a Disconnected facade.
C8_Witness ==
  /\ ret = Throw("insert", "ColumnsLengthMismatch")
  /\ pool = NoPool

\* C9: when the driver reports one affected row, insert returns
\* affectedRows 1, changedRows 0 and the id of the returned row, or null
\* when the driver returns no row.
C9_InsertResultOfOneRow ==
  [][\A result \in DriverResults :
       (insertReturn(result) /\ result.rowCount = 1)
         => ret' = Return("insert",
              [affectedRows |-> 1,
               changedRows |-> 0,
               insertId |-> IF Len(result.rows) > 0
                            THEN result.rows[1].id ELSE JsNull])]_vars

\* C10: execute forwards one query, the rewritten SQL with its ordered
\* values, and returns the driver's row count as affectedRows and as
\* changedRows.
C10_ExecuteForwardsOnceAndCounts ==
  [][/\ (pool # NoPool /\ ret' = ret) =>
          \A sql \in QueryTemplates, params \in QueryParameters :
            (execute(sql, params) /\ AllTokensBound(sql, params))
              => (/\ sent' = Sent("SlimNodePostgres", Rewritten(sql, "$"),
                                  JsArray(TokenValues(sql, params)))
                  /\ inflight' = inflight \cup {Awaiting("execute", NoPool)}
                  /\ Awaiting("execute", NoPool) \notin inflight)
     /\ (Awaiting("execute", NoPool) \in inflight) =>
          \A result \in DriverResults :
            executeReturn(result)
              => (/\ ret' = Return("execute",
                                [affectedRows |-> result.rowCount,
                                 changedRows |-> result.rowCount])
                  /\ UNCHANGED sent)]_vars

\* C10 witness: an update with two tokens was forwarded as $1, $2 with its two
\* values in order, and execute has returned one affected and changed row.
C10_Witness ==
  /\ ret = Return("execute", [affectedRows |-> 1, changedRows |-> 1])
  /\ sent = Sent("SlimNodePostgres", <<"$", "1", "$", "2">>,
                 JsArray(<<"v1", "v2">>))

\* The facade is Disconnected: its pool field is null.
Disconnected == pool = NoPool

\* C11: query, getOne, getValue, exists, execute and insert called on a
\* Disconnected facade each end with an error, send nothing to any pool and
\* leave the facade Disconnected, with no call left awaiting.  (Written as
\* "the outcome holds, or the step is none of these calls".)
C11_DisconnectedCallsFail ==
  [][Disconnected =>
       \/ /\ ret'.status = "threw"
          /\ ret'.op \in FacadeAsyncOps
          /\ pool' = NoPool
          /\ UNCHANGED <<poolState, endCalls, inflight, sent>>
       \/ ~ \/ \E op \in QueryOps, sql \in QueryTemplates,
                  params \in QueryParameters : query(op, sql, params)
            \/ \E sql \in QueryTemplates, params \in QueryParameters :
                 execute(sql, params)
            \/ \E tableName \in TableNames, columns \in ColumnLists,
                  values \in ValueLists : insert(tableName, columns, values)]_vars

\* C11 witness: after close() resolved on the only pool, with nothing ever
\* sent, getValue on a template without tokens has thrown the TypeError of
\* the null pool field.
C11_Witness ==
  /\ ret = Throw("getValue", "TypeError")
  /\ Disconnected
  /\ poolState[1] = "ended"
  /\ poolState[2] = "unborn"
  /\ inflight = {}
  /\ ~sent.made

\* C12: under every interleaving of close() and connect() calls, end() is
\* called at most once on each pool, and close() on a Disconnected facade
\* calls end() on nothing.
C12_EndCalledAtMostOnce ==
  [][/\ \A p \in Pools : endCalls'[p] <= 1
     /\ (close /\ Disconnected) => UNCHANGED endCalls]_vars

\* The call in progress has entered its loop and not yet left it.
InLoop == loop.pc = "while"

\* C13: a call of a prepare method with marker "$", "?" or ":" ends.  Each
\* iteration of its loop throws (the missing-parameter error, when a
\* parameters map was passed) or leaves one token occurrence fewer in the
\* working string; the loop body is entered as often as the template has
\* token occurrences when the method returns, and no more often, with fewer
\* replacements made, when it throws.
C13_PrepareTerminates ==
  /\ InLoop ~> ~InLoop
  /\ [][LoopBody =>
          \/ /\ loop'.pc = "threw"
             /\ parameters.given => parsed'.result.status = "MissingParameter"
          \/ /\ loop'.pc = "while"
             /\ Len(Tokens(loop'.preparedSQL))
                  = Len(Tokens(loop.preparedSQL)) - 1]_vars
  /\ [](/\ replaceValuesWith \in Markers
        /\ loop.pc = "returned" => loop.iterations = Len(Tokens(sqlString))
        /\ loop.pc = "threw" =>
             /\ loop.iterations <= Len(Tokens(sqlString))
             /\ loop.index - 1 < Len(Tokens(sqlString)))

\* C13 witness: PostgresPreparedStatement.prepare with marker ":" has returned
\* after two iterations on a template with two occurrences of one token.
C13_Witness ==
  /\ sqlString = <<"@", "a", "@", "a">>
  /\ loop.pc = "returned"
  /\ loop.by = "PostgresPreparedStatement"
  /\ loop.iterations = 2
  /\ parsed.marker = ":"
  /\ parsed.result.preparedSQL = <<":", "1", ":", "2">>

====
